---------------------------- MODULE Spec2Model ----------------------------
(***************************************************************************)
(* Poll loops of the media-generation scripts.                             *)
(*                                                                         *)
(*   src/VideoGen_Agent.py   wait_for_image, wait_for_video, download_video *)
(*   src/img_generator.py    send_async_generation_request                 *)
(*                                                                         *)
(* Each poll loop is a sequential, blocking function.  One iteration is    *)
(* split in two steps, the status call (with the dispatch on its answer)   *)
(* and the sleep, so that calls and sleeps can be counted separately.      *)
(* The remote service and the clock are the environment.                   *)
(***************************************************************************)
EXTENDS Integers, Sequences, FiniteSets, TLC

(***************************************************************************)
(* Bounds of the model.                                                    *)
(***************************************************************************)
\* Longest scripted prefix of status answers of a RunwayML stub.
MaxScript == 2
\* Largest WORKER_TIMEOUT value (seconds) placed in the environment.
MaxBudget == 30
\* Longest time (seconds) one status request of the results endpoint takes.
MaxLatency == 1
\* Most chunks in the body of a download response.
MaxChunks == 2
\* Largest `calls` and `period` (seconds) a function is decorated with.
MaxCalls == 3
MaxPeriod == 3
\* Furthest (seconds) the wall clock is set back behind last_reset.
MaxBack == 2
\* Seconds between two moments at which the decorated forward is looked at.
ForwardTick == 10
\* Longest text (characters) handed to TwitterTool.forward.
MaxText == 282
\* Longest list of selected platforms the selector answers with.
MaxPlatforms == 3

\* Counters of the RunwayML pollers count exactly up to MaxScript + 1 and
\* saturate at CountCap, which reads "more than MaxScript + 1".
CountCap == MaxScript + 2

(***************************************************************************)
(* Values shared by the pollers.                                           *)
(***************************************************************************)
\* Python's None and a proper value; val is a tuple of strings (a URL is a
\* one-element tuple, a file path the tuple of its parts).
None == [isNone |-> TRUE, val |-> <<>>]
Value(v) == [isNone |-> FALSE, val |-> v]

Inc(n) == IF n < CountCap THEN n + 1 ELSE n

(***************************************************************************)
(* RunwayML task status answers (runway.tasks.retrieve).                   *)
(***************************************************************************)
TaskIds == {"t1", "t2"}
\* Statuses the pollers give no special treatment: they sleep and retry.
NonTerminal == {"RUNNING", "CANCELLED"}

\* The retrieve call raised (connection error, API error).
RaisedAnswer == [raised |-> TRUE, status |-> "-", hasOutput |-> FALSE, output |-> <<>>]
StatusAnswer(st) == [raised |-> FALSE, status |-> st, hasOutput |-> FALSE, output |-> <<>>]
\* SUCCEEDED with an output list, with an empty one, or with none at all.
SucceededAnswers ==
    { [raised |-> FALSE, status |-> "SUCCEEDED", hasOutput |-> TRUE, output |-> o] :
        o \in {<<>>, <<"u2", "u1">>} }
    \cup {StatusAnswer("SUCCEEDED")}
Answers ==
    {RaisedAnswer} \cup {StatusAnswer(st) : st \in NonTerminal \cup {"FAILED"}}
    \cup SucceededAnswers

Scripts == UNION { [1..n -> Answers] : n \in 0..MaxScript }

VARIABLES
    pc,          \* "idle" | "retrieve" (loop top) | "sleep" | "done" (returned)
    kind,        \* "image" (wait_for_image) | "video" (wait_for_video)
    task_id,
    script,      \* the stub: answers to the first Len(script) status calls
    tail,        \* the stub: answer to every later status call
    calls,       \* status calls made by this invocation
    sleeps,      \* time.sleep calls made by this invocation
    pending,     \* non-terminal statuses observed by this invocation
    task,        \* the last answer of runway.tasks.retrieve
    result,      \* the value returned to the caller
    escaped,     \* exception class that left the poller uncaught, or "none"
    fetched,     \* requests made by download_video: url, filename, HTTP answer
    slept,       \* seconds slept since the last status call
    prevFail     \* what the caller got from its previous failed invocation

rwVars == <<pc, kind, task_id, script, tail, calls, sleeps, pending, task,
            result, escaped, fetched, slept, prevFail>>

(***************************************************************************)
(* send_async_generation_request (Stability results endpoint).             *)
(***************************************************************************)
VARIABLES
    a_pc,          \* "idle" | "poll" (loop top) | "sleep" | "done"
    a_env,         \* WORKER_TIMEOUT in the environment: set or not, its value
    timeout,       \* int(os.getenv("WORKER_TIMEOUT", 500))
    elapsed,       \* time.time() - start, in seconds
    status_code,   \* the loop variable
    a_calls,       \* status requests made by this invocation
    a_sleeps,      \* time.sleep calls made by this invocation
    a_pending,     \* 202 answers observed by this invocation
    a_success,     \* some status request was answered ok and not 202
    a_latency,     \* seconds spent inside status requests (saturates)
    outcome,       \* how the function left: the response returned or the raise
    a_prevRaise,   \* cause and exception class of the caller's previous raise
    generation_id, \* response_dict.get("id", None): "-" before the submit
    a_requests,    \* kinds of HTTP requests sent, equal neighbours merged
    a_slept,       \* seconds slept since the last status request
    a_errors       \* status requests that failed (raised, or answered not ok)

asVars == <<a_pc, a_env, timeout, elapsed, status_code, a_calls, a_sleeps,
            a_pending, a_success, a_latency, outcome, a_prevRaise,
            generation_id, a_requests, a_slept, a_errors>>

(***************************************************************************)
(* download_video and the directory it writes to.                          *)
(***************************************************************************)
VARIABLES
    d_pc,        \* "idle" | "writing" (inside the for loop) | "done"
    d_dir,       \* the directory generated_videos exists
    d_file,      \* the target file: whether it exists, and its chunks
    d_before,    \* d_dir and d_file as they were when the call started
    d_filename,  \* the filename argument
    d_status,    \* response.status_code (0: requests.get raised)
    d_stream,    \* the chunks response.iter_content yields, in order
    d_breaks,    \* the stream raises once its chunks are through
    d_pos,       \* chunks taken from the stream so far
    d_requests,  \* HTTP requests made by this call
    d_result     \* the value returned

dlVars == <<d_pc, d_dir, d_file, d_before, d_filename, d_status, d_stream,
            d_breaks, d_pos, d_requests, d_result>>

(***************************************************************************)
(* The main pipeline of VideoGen_Agent.py (`if __name__ == "__main__":`).  *)
(***************************************************************************)
VARIABLES
    m_pc,              \* "start" | "client" | "video" | "poll" | "combine" | "end"
    m_log,             \* the stages that ran, in order
    m_audio,           \* audio_file_path, audio_duration_sec (tenths of a second)
    m_video_duration,  \* video_duration (0: not computed)
    m_image,           \* generated_image_url
    m_task,            \* video_task_id
    m_downloaded,      \* downloaded_video_path
    m_combined         \* the arguments combine_audio_and_video was called with

mnVars == <<m_pc, m_log, m_audio, m_video_duration, m_image, m_task,
            m_downloaded, m_combined>>

(***************************************************************************)
(* rate_limit(calls, period): the closure of one decorated function, and   *)
(* an observer counting the invocations that start within one interval.    *)
(***************************************************************************)
VARIABLES
    r_pc,         \* "module" (not decorated yet) | "decorated"
    r_calls,      \* the decorator's argument calls
    r_period,     \* the decorator's argument period, in seconds
    since_reset,  \* datetime.now() - last_reset, in seconds; r_period + 1
                  \* stands for every larger value
    calls_made,   \* the closure's counter
    r_monotone,   \* the clock was never set back
    r_invoked,    \* the wrapper was invoked at least once
    r_last,       \* what the invocation that just returned found and did
    w_armed,      \* the observed interval: "no" | "yes" (running) | "over"
    w_age,        \* seconds since the observed interval began
    w_count       \* invocations started in the observed interval

rlVars == <<r_pc, r_calls, r_period, since_reset, calls_made, r_monotone,
            r_invoked, r_last, w_armed, w_age, w_count>>

(***************************************************************************)
(* TwitterTool.forward and the tweepy client it calls.                     *)
(***************************************************************************)
VARIABLES
    t_called,   \* forward was called and its outcome not yet taken
    t_input,    \* the argument text
    t_tweets,   \* the texts create_tweet was called with, in order
    t_result,   \* the dict returned
    t_raised    \* the exception that left forward ("none": it returned)

twVars == <<t_called, t_input, t_tweets, t_result, t_raised>>

(***************************************************************************)
(* run_growth_system (orchestrator_agent/platforms_agent.py).              *)
(***************************************************************************)
VARIABLES
    g_pc,          \* "idle" | "loop" (the for loop) | "done"
    g_selection,   \* platform_selection, what select_platforms returned
    g_next,        \* index of the loop's next element
    g_created,     \* the platforms create_platform_content was called with
    g_strategies,  \* content_strategies, a dict keyed by platform
    g_result,      \* the value returned
    g_raised       \* the exception that left run_growth_system

grVars == <<g_pc, g_selection, g_next, g_created, g_strategies, g_result, g_raised>>

(***************************************************************************)
(* One Reddit tool under @backoff.on_exception and @rate_limit, and the    *)
(* calls it makes to Reddit.                                               *)
(***************************************************************************)
VARIABLES
    p_tool,     \* the decorated function looked at ("-": not chosen yet)
    p_pc,       \* "idle" | "trying" (inside backoff's loop) | "done"
    p_args,     \* the arguments of the call
    p_tries,    \* attempts backoff has made for this call
    p_log,      \* what each attempt ended with ("none": it returned)
    p_reddit,   \* the submit and reply calls made to Reddit, in order
    p_outcome,  \* what the caller gets: a returned string or an exception
    p_made0,    \* calls_made when the call began
    p_reset,    \* the limiter reset its counter during this call
    p_after,    \* attempts of this call since that reset, its own included
    p_slept     \* attempts of this call on which the limiter slept

pbVars == <<p_tool, p_pc, p_args, p_tries, p_log, p_reddit, p_outcome,
            p_made0, p_reset, p_after, p_slept>>

\* What the actions of one component leave alone.
notRw == <<asVars, dlVars, mnVars, rlVars, twVars, grVars, pbVars>>
notAs == <<rwVars, dlVars, mnVars, rlVars, twVars, grVars, pbVars>>
notDl == <<rwVars, asVars, mnVars, rlVars, twVars, grVars, pbVars>>
notMn == <<rwVars, asVars, dlVars, rlVars, twVars, grVars, pbVars>>
notRl == <<rwVars, asVars, dlVars, mnVars, twVars, grVars, pbVars>>
notTw == <<rwVars, asVars, dlVars, mnVars, rlVars, grVars, pbVars>>
notGr == <<rwVars, asVars, dlVars, mnVars, rlVars, twVars, pbVars>>
notPb == <<rwVars, asVars, dlVars, mnVars, rlVars, twVars, grVars>>
\* An attempt of a Reddit tool runs the limiter's wrapper and the tool.
notPbRl == <<rwVars, asVars, dlVars, mnVars, twVars, grVars>>

vars == <<rwVars, asVars, dlVars, mnVars, rlVars, twVars, grVars, pbVars>>

\* The answer of the stub to status call number n.
StatusFetch(n) == IF n <= Len(script) THEN script[n] ELSE tail

(***************************************************************************)
(* The body of the try block, one iteration, as a pure function of the     *)
(* answer: which exception it raises, whether it returns, and what.        *)
(***************************************************************************)
\* Mutant of FirstOutput: task.output[-1], the last locator instead of the first.
FirstOutputLast(t) ==
    IF ~t.hasOutput THEN [exc |-> "TypeError", val |-> <<>>]
    ELSE IF Len(t.output) = 0 THEN [exc |-> "IndexError", val |-> <<>>]
    ELSE [exc |-> "none", val |-> <<t.output[Len(t.output)]>>]

\* task.output[0]: TypeError on None, IndexError on an empty list.
FirstOutput(t) ==
    IF ~t.hasOutput THEN [exc |-> "TypeError", val |-> <<>>]
    ELSE IF Len(t.output) = 0 THEN [exc |-> "IndexError", val |-> <<>>]
    ELSE [exc |-> "none", val |-> <<t.output[1]>>]

\* Mutant of ExceptException: a handler for the API's own error class only.
ExceptApiErrorOnly(exc) == exc = "APIError"

\* `except Exception as e: ... return None`: every exception the body can
\* raise derives from Exception.
ExceptException(exc) == exc \in {"APIError", "TypeError", "IndexError"}

\* Mutant of Dispatch: CANCELLED is taken for a failure and ends the loop.
DispatchCancelledEnds(t) ==
    IF t.raised THEN "raise"
    ELSE IF t.status = "SUCCEEDED" THEN "succeeded"
    ELSE IF t.status \in {"FAILED", "CANCELLED"} THEN "failed"
    ELSE "sleep"

\* Mutant of Dispatch: no branch for FAILED, which then sleeps and retries.
DispatchWithoutFailed(t) ==
    IF t.raised THEN "raise"
    ELSE IF t.status = "SUCCEEDED" THEN "succeeded"
    ELSE "sleep"

\* The status dispatch: which branch of the loop body the answer takes.
Dispatch(t) ==
    IF t.raised THEN "raise"
    ELSE IF t.status = "SUCCEEDED" THEN "succeeded"
    ELSE IF t.status = "FAILED" THEN "failed"
    ELSE "sleep"

\* download_video(url, filename) given the HTTP answer to requests.get.
DownloadAnswers == {"200", "404", "raise"}
download_video(url, filename, http) ==
    IF http = "200" THEN Value(<<"generated_videos", filename>>) ELSE None

VideoFile(id) == "runway_video_" \o id \o ".mp4"

\* Why an invocation ended, read off the last answer (a label for the log).
Cause(t) ==
    IF t.raised THEN "transport"
    ELSE IF t.status = "FAILED" THEN "remote_failed"
    ELSE IF t.status = "SUCCEEDED" /\ FirstOutput(t).exc # "none" THEN "malformed"
    ELSE IF t.status = "SUCCEEDED" THEN "succeeded"
    ELSE "none"
FailCauses == {"transport", "remote_failed", "malformed"}
NoFail == [cause |-> "none", value |-> None, exc |-> "none"]

RwInit ==
    /\ pc = "idle"
    /\ kind = "image"
    /\ task_id = "t1"
    /\ script = <<>>
    /\ tail = RaisedAnswer
    /\ calls = 0
    /\ sleeps = 0
    /\ pending = 0
    /\ task = RaisedAnswer
    /\ result = None
    /\ escaped = "none"
    /\ fetched = <<>>
    /\ slept = 0
    /\ prevFail = NoFail

\* The caller invokes wait_for_image(task_id, runway) or wait_for_video.
Invoke ==
    /\ pc = "idle"
    /\ \E k \in {"image", "video"}, id \in TaskIds, s \in Scripts, t \in Answers :
        /\ kind' = k
        /\ task_id' = id
        /\ script' = s
        /\ tail' = t
    /\ pc' = "retrieve"
    /\ UNCHANGED <<calls, sleeps, pending, task, result, escaped, fetched,
                   slept, prevFail>>
    /\ UNCHANGED notRw

\* The caller takes the returned value and goes on; it remembers what its
\* last failed invocation gave it.
Resume ==
    /\ pc = "done"
    /\ prevFail' = IF Cause(task) \in FailCauses
                   THEN [cause |-> Cause(task), value |-> result, exc |-> escaped]
                   ELSE prevFail
    /\ pc' = "idle"
    /\ kind' = "image"
    /\ task_id' = "t1"
    /\ script' = <<>>
    /\ tail' = RaisedAnswer
    /\ calls' = 0
    /\ sleeps' = 0
    /\ pending' = 0
    /\ task' = RaisedAnswer
    /\ result' = None
    /\ escaped' = "none"
    /\ fetched' = <<>>
    /\ slept' = 0
    /\ UNCHANGED notRw

\* Leaving the function: by return, or by an exception no handler caught.
Leave(value, exc) ==
    /\ pc' = "done"
    /\ result' = IF ExceptException(exc) \/ exc = "none" THEN value ELSE None
    /\ escaped' = IF ExceptException(exc) THEN "none" ELSE exc

\* One pass of wait_for_image's try block up to the sleep.
wait_for_image_retrieve ==
    /\ pc = "retrieve"
    /\ kind = "image"
    /\ LET t == StatusFetch(calls + 1)
           d == Dispatch(t)
       IN  /\ task' = t
           /\ calls' = Inc(calls)
           /\ slept' = 0
           /\ pending' = IF d = "sleep" THEN Inc(pending) ELSE pending
           /\ CASE d = "raise" -> Leave(None, "APIError")
                [] d = "succeeded" ->
                     Leave(IF FirstOutput(t).exc = "none"
                           THEN Value(FirstOutput(t).val) ELSE None,
                           FirstOutput(t).exc)
                [] d = "failed" -> Leave(None, "none")
                [] OTHER -> pc' = "sleep" /\ UNCHANGED <<result, escaped>>
    /\ UNCHANGED <<kind, task_id, script, tail, sleeps, fetched, prevFail>>
    /\ UNCHANGED notRw

\* Mutant of wait_for_image_sleep: the loop goes on without the sleep.
wait_for_image_no_sleep ==
    /\ pc = "sleep"
    /\ kind = "image"
    /\ pc' = "retrieve"
    /\ UNCHANGED <<kind, task_id, script, tail, calls, sleeps, pending, task,
                   result, escaped, fetched, slept, prevFail>>
    /\ UNCHANGED notRw

\* time.sleep(5), then the loop's next pass.
wait_for_image_sleep ==
    /\ pc = "sleep"
    /\ kind = "image"
    /\ sleeps' = Inc(sleeps)
    /\ slept' = slept + 5
    /\ pc' = "retrieve"
    /\ UNCHANGED <<kind, task_id, script, tail, calls, pending, task, result,
                   escaped, fetched, prevFail>>
    /\ UNCHANGED notRw

\* One pass of wait_for_video's try block up to the sleep.
wait_for_video_retrieve ==
    /\ pc = "retrieve"
    /\ kind = "video"
    /\ LET t == StatusFetch(calls + 1)
           d == Dispatch(t)
       IN  /\ task' = t
           /\ calls' = Inc(calls)
           /\ slept' = 0
           /\ pending' = IF d = "sleep" THEN Inc(pending) ELSE pending
           /\ CASE d = "raise" -> Leave(None, "APIError") /\ UNCHANGED fetched
                [] d = "succeeded" /\ FirstOutput(t).exc # "none" ->
                     Leave(None, FirstOutput(t).exc) /\ UNCHANGED fetched
                [] d = "succeeded" /\ FirstOutput(t).exc = "none" ->
                     \E http \in DownloadAnswers :
                        /\ fetched' = Append(fetched,
                                [url |-> FirstOutput(t).val[1],
                                 filename |-> VideoFile(task_id), http |-> http])
                        /\ Leave(download_video(FirstOutput(t).val[1],
                                                VideoFile(task_id), http), "none")
                [] d = "failed" -> Leave(None, "none") /\ UNCHANGED fetched
                [] OTHER -> pc' = "sleep" /\ UNCHANGED <<result, escaped, fetched>>
    /\ UNCHANGED <<kind, task_id, script, tail, sleeps, prevFail>>
    /\ UNCHANGED notRw

\* time.sleep(10), then the loop's next pass.
wait_for_video_sleep ==
    /\ pc = "sleep"
    /\ kind = "video"
    /\ sleeps' = Inc(sleeps)
    /\ slept' = slept + 10
    /\ pc' = "retrieve"
    /\ UNCHANGED <<kind, task_id, script, tail, calls, pending, task, result,
                   escaped, fetched, prevFail>>
    /\ UNCHANGED notRw

RwPoll ==
    \/ wait_for_image_retrieve
    \/ wait_for_image_sleep
    \/ wait_for_video_retrieve
    \/ wait_for_video_sleep

RwNext == Invoke \/ Resume \/ RwPoll

(***************************************************************************)
(* send_async_generation_request.                                          *)
(***************************************************************************)
\* time.sleep(10) in the loop.
PollInterval == 10
\* The default of os.getenv("WORKER_TIMEOUT", 500).
DefaultTimeout == 500

\* HTTP status codes the service answers with.
StatusCodes == {200, 202, 404, 500}
\* What requests.get of the results endpoint gives: a response, or it raises
\* (no connection).
StatusReplies ==
    { [raised |-> FALSE, code |-> c] : c \in StatusCodes }
    \cup {[raised |-> TRUE, code |-> 0]}
\* Mutant of Ok: only server errors count as failures.
OkBelow500(code) == code < 500

\* requests.Response.ok
Ok(code) == code < 400

\* WORKER_TIMEOUT: unset, or the decimal text of a number of seconds (kept
\* here as the number int() reads from it).
EnvValues == {[set |-> FALSE, val |-> 0]} \cup { [set |-> TRUE, val |-> n] : n \in 0..MaxBudget }
LoadTimeout(env) == IF env.set THEN env.val ELSE DefaultTimeout

\* Mutant of TimedOut: the budget counted from the end of the second sleep.
TimedOutLate(el, to) == el > to + 2 * PollInterval

\* `if time.time() - start > timeout`
TimedOut(el, to) == el > to

NoOutcome == [how |-> "none", exc |-> "-", msg |-> "-", code |-> 0]
Returned(code) == [how |-> "return", exc |-> "-", msg |-> "-", code |-> code]
\* raise Exception(f"HTTP {response.status_code}: {response.text}")
RaiseHttp(code) == [how |-> "raise", exc |-> "Exception", msg |-> "HTTP", code |-> code]
\* raise Exception(f"Timeout after {timeout} seconds")
RaiseTimeout == [how |-> "raise", exc |-> "Exception", msg |-> "Timeout", code |-> 0]
\* assert generation_id is not None, "Expected id in response"
RaiseAssert == [how |-> "raise", exc |-> "AssertionError", msg |-> "Expected id in response", code |-> 0]
\* requests.get raised: the exception passes through the function unhandled.
RaiseConnection == [how |-> "raise", exc |-> "ConnectionError", msg |-> "connection", code |-> 0]

\* The submit response: not ok, accepted without an id, accepted with one.
SubmitAnswers == {"not ok", "no id", "accepted"}
\* Mutant of SubmitBranch: the id is not checked (the assert is gone).
SubmitBranchUnchecked(post) ==
    IF post = "not ok" THEN "raise http" ELSE "loop"

\* Lines 56-62: which way the function goes after the POST.
SubmitBranch(post) ==
    IF post = "not ok" THEN "raise http"
    ELSE IF post = "no id" THEN "raise assert"
    ELSE "loop"

\* The request log with one more request of kind k.
Sent(log, k) == IF log # <<>> /\ log[Len(log)] = k THEN log ELSE Append(log, k)

NoRaise == [cause |-> "none", exc |-> "-"]

AsInit ==
    /\ a_pc = "idle"
    /\ a_env = [set |-> FALSE, val |-> 0]
    /\ timeout = 0
    /\ elapsed = 0
    /\ status_code = 0
    /\ a_calls = 0
    /\ a_sleeps = 0
    /\ a_pending = 0
    /\ a_success = FALSE
    /\ a_latency = 0
    /\ outcome = NoOutcome
    /\ a_prevRaise = NoRaise
    /\ generation_id = "-"
    /\ a_requests = <<>>
    /\ a_slept = 0
    /\ a_errors = 0

\* The POST, the id check, and the set-up of the loop.
send_async_submit ==
    /\ a_pc = "idle"
    /\ \E env \in EnvValues, post \in SubmitAnswers :
        /\ a_env' = env
        /\ generation_id' = CASE post = "not ok" -> "-"
                              [] post = "no id" -> "None"
                              [] OTHER -> "g1"
        /\ CASE SubmitBranch(post) = "raise http" ->
                  /\ outcome' = RaiseHttp(400)
                  /\ a_pc' = "done"
                  /\ UNCHANGED <<timeout, status_code>>
             [] SubmitBranch(post) = "raise assert" ->
                  /\ outcome' = RaiseAssert
                  /\ a_pc' = "done"
                  /\ UNCHANGED <<timeout, status_code>>
             [] OTHER ->
                  /\ timeout' = LoadTimeout(env)
                  /\ status_code' = 202
                  /\ a_pc' = "poll"
                  /\ UNCHANGED outcome
    /\ elapsed' = 0
    /\ a_requests' = Sent(a_requests, "POST generate")
    /\ UNCHANGED <<a_calls, a_sleeps, a_pending, a_success, a_latency,
                   a_prevRaise, a_slept, a_errors>>
    /\ UNCHANGED notAs

\* `while status_code == 202:` the GET of the results endpoint and the ok check.
send_async_poll ==
    /\ a_pc = "poll"
    /\ status_code = 202
    /\ \E r \in StatusReplies, d \in 0..MaxLatency :
        /\ a_calls' = a_calls + 1
        /\ elapsed' = elapsed + d
        /\ a_latency' = IF a_latency + d < PollInterval THEN a_latency + d ELSE PollInterval
        /\ a_errors' = IF r.raised \/ r.code >= 400 THEN a_errors + 1 ELSE a_errors
        /\ IF r.raised
           THEN /\ outcome' = RaiseConnection
                /\ a_pc' = "done"
                /\ UNCHANGED <<status_code, a_pending, a_success>>
           ELSE IF ~Ok(r.code)
           THEN /\ outcome' = RaiseHttp(r.code)
                /\ a_pc' = "done"
                /\ UNCHANGED <<status_code, a_pending, a_success>>
           ELSE /\ status_code' = r.code
                /\ a_pending' = IF r.code = 202 THEN a_pending + 1 ELSE a_pending
                /\ a_success' = (a_success \/ r.code # 202)
                /\ a_pc' = "sleep"
                /\ UNCHANGED outcome
    /\ a_requests' = Sent(a_requests, "GET results")
    /\ a_slept' = 0
    /\ UNCHANGED <<a_env, timeout, a_sleeps, a_prevRaise, generation_id>>
    /\ UNCHANGED notAs

\* Mutant of send_async_sleep: a timeout also asks the service to cancel.
send_async_sleep_cancelling ==
    /\ a_pc = "sleep"
    /\ a_sleeps' = a_sleeps + 1
    /\ a_slept' = a_slept + PollInterval
    /\ elapsed' = elapsed + PollInterval
    /\ IF TimedOut(elapsed + PollInterval, timeout)
       THEN /\ outcome' = RaiseTimeout
            /\ a_pc' = "done"
            /\ a_requests' = Sent(a_requests, "POST cancel")
       ELSE /\ IF status_code = 202
               THEN a_pc' = "poll" /\ UNCHANGED outcome
               ELSE outcome' = Returned(status_code) /\ a_pc' = "done"
            /\ UNCHANGED a_requests
    /\ UNCHANGED <<a_env, timeout, status_code, a_calls, a_pending, a_success,
                   a_latency, a_prevRaise, generation_id, a_errors>>
    /\ UNCHANGED notAs

\* time.sleep(10), the timeout check, and the loop condition.
send_async_sleep ==
    /\ a_pc = "sleep"
    /\ a_sleeps' = a_sleeps + 1
    /\ a_slept' = a_slept + PollInterval
    /\ elapsed' = elapsed + PollInterval
    /\ IF TimedOut(elapsed + PollInterval, timeout)
       THEN outcome' = RaiseTimeout /\ a_pc' = "done"
       ELSE IF status_code = 202
       THEN a_pc' = "poll" /\ UNCHANGED outcome
       ELSE outcome' = Returned(status_code) /\ a_pc' = "done"
    /\ UNCHANGED <<a_env, timeout, status_code, a_calls, a_pending, a_success,
                   a_latency, a_prevRaise, generation_id, a_requests, a_errors>>
    /\ UNCHANGED notAs

\* Why the function raised (a label for the caller's log).
RaiseCause(o, polled) ==
    IF o.how # "raise" THEN "none"
    ELSE IF o.msg = "Timeout" THEN "timeout"
    ELSE IF o.msg = "HTTP" /\ polled THEN "remote_failure"
    ELSE IF o.msg = "HTTP" THEN "submit_failure"
    ELSE IF o.msg = "connection" THEN "transport"
    ELSE "no_id"

\* The caller handles the outcome and goes on; it remembers the class of the
\* last exception it caught and what had caused it.
AsyncResume ==
    /\ a_pc = "done"
    /\ a_prevRaise' = IF outcome.how = "raise"
                      THEN [cause |-> RaiseCause(outcome, a_calls > 0), exc |-> outcome.exc]
                      ELSE a_prevRaise
    /\ a_pc' = "idle"
    /\ a_env' = [set |-> FALSE, val |-> 0]
    /\ timeout' = 0
    /\ elapsed' = 0
    /\ status_code' = 0
    /\ a_calls' = 0
    /\ a_sleeps' = 0
    /\ a_pending' = 0
    /\ a_success' = FALSE
    /\ a_latency' = 0
    /\ outcome' = NoOutcome
    /\ generation_id' = "-"
    /\ a_requests' = <<>>
    /\ a_slept' = 0
    /\ a_errors' = 0
    /\ UNCHANGED notAs

send_async_generation_request ==
    \/ send_async_submit
    \/ send_async_poll
    \/ send_async_sleep

AsNext == send_async_generation_request \/ AsyncResume

(***************************************************************************)
(* download_video, chunk by chunk.                                         *)
(***************************************************************************)
\* Status codes a download answers with; 0 stands for requests.get raising.
DownloadCodes == {0, 200, 204, 206, 302, 404, 500}
Chunks == {"a", "b"}
Streams == UNION { [1..n -> Chunks] : n \in 0..MaxChunks }
NoFile == [exists |-> FALSE, content |-> <<>>]
File(c) == [exists |-> TRUE, content |-> c]

\* Mutant of DownloadOk: every 2xx answer is taken for the video.
DownloadOk2xx(code) == code >= 200 /\ code < 300

\* `if response.status_code == 200:`
DownloadOk(code) == code = 200

\* Mutant of WriteChunk: the file is opened anew for each chunk.
WriteChunkTruncating(content, chunk) == <<chunk>>

\* f.write(chunk) on a file opened with 'wb'.
WriteChunk(content, chunk) == Append(content, chunk)

DlInit ==
    /\ d_pc = "idle"
    /\ d_dir = FALSE
    /\ d_file = NoFile
    /\ d_before = [dir |-> FALSE, file |-> NoFile]
    /\ d_filename = "-"
    /\ d_status = 0
    /\ d_stream = <<>>
    /\ d_breaks = FALSE
    /\ d_pos = 0
    /\ d_requests = 0
    /\ d_result = None

\* Between calls: an earlier run left the directory behind, with or without
\* a file of the same name, or everything was removed.
FilesChange ==
    /\ d_pc \in {"idle", "done"}
    /\ \E dir \in BOOLEAN, f \in {NoFile, File(<<"old">>)} :
        /\ (f.exists => dir)
        /\ d_dir' = dir
        /\ d_file' = f
    /\ d_pc' = "idle"
    /\ d_before' = [dir |-> FALSE, file |-> NoFile]
    /\ d_filename' = "-"
    /\ d_status' = 0
    /\ d_stream' = <<>>
    /\ d_breaks' = FALSE
    /\ d_pos' = 0
    /\ d_requests' = 0
    /\ d_result' = None
    /\ UNCHANGED notDl

\* download_video(url, filename) up to the for loop: the GET, the status
\* check, os.makedirs(exist_ok=True) and open(filepath, 'wb').
download_video_get ==
    /\ d_pc = "idle"
    /\ \E name \in {"runway_video_t1.mp4", "runway_video_t2.mp4"},
          code \in DownloadCodes, stream \in Streams, breaks \in BOOLEAN :
        /\ d_filename' = name
        /\ d_status' = code
        /\ d_requests' = d_requests + 1
        /\ d_before' = [dir |-> d_dir, file |-> d_file]
        /\ IF code # 0 /\ DownloadOk(code)
           THEN /\ d_stream' = stream
                /\ d_breaks' = breaks
                /\ d_dir' = TRUE
                /\ d_file' = File(<<>>)
                /\ d_pc' = "writing"
                /\ UNCHANGED d_result
           ELSE /\ d_result' = None
                /\ d_pc' = "done"
                /\ UNCHANGED <<d_stream, d_breaks, d_dir, d_file>>
    /\ UNCHANGED d_pos
    /\ UNCHANGED notDl

\* One pass of `for chunk in response.iter_content(...)`, or its end: the
\* file is closed and the path returned, or the broken stream's exception
\* is caught and None returned.
download_video_write ==
    /\ d_pc = "writing"
    /\ IF d_pos < Len(d_stream)
       THEN /\ d_file' = File(WriteChunk(d_file.content, d_stream[d_pos + 1]))
            /\ d_pos' = d_pos + 1
            /\ UNCHANGED <<d_pc, d_result>>
       ELSE /\ d_result' = IF d_breaks THEN None
                           ELSE Value(<<"generated_videos", d_filename>>)
            /\ d_pc' = "done"
            /\ UNCHANGED <<d_file, d_pos>>
    /\ UNCHANGED <<d_dir, d_before, d_filename, d_status, d_stream, d_breaks,
                   d_requests>>
    /\ UNCHANGED notDl

DlNext == FilesChange \/ download_video_get \/ download_video_write

(***************************************************************************)
(* The main pipeline, stage by stage.                                      *)
(***************************************************************************)
\* Audio lengths, in tenths of a second.
Durations == {0, 1, 69, 70, 71, 123}
\* generate_audio_from_text returns (audio_path, duration) or (None, 0).
AudioResults ==
    {[path |-> None, duration |-> 0]} \cup
    {[path |-> Value(<<"generated_audio", "generated_audio.mp3">>),
      duration |-> d] : d \in Durations}
ImageResults == {None, Value(""), Value("u1"), Value("u2")}
TaskResults == {None} \cup {Value(id) : id \in TaskIds}

\* Mutant of Truthy: a stage's result is not looked at.
TruthyAlways(v) == TRUE

\* Python's truth value of a result that is None or a string or path.
Truthy(v) == ~v.isNone /\ v.val # ""

\* math.ceil of a length given in tenths of a second.
Ceil(tenths) == (tenths + 9) \div 10

\* `if calculated_duration > 7: video_duration = 10 / else: video_duration = 5`
VideoDuration(tenths) == IF Ceil(tenths) > 7 THEN 10 ELSE 5

MnInit ==
    /\ m_pc = "start"
    /\ m_log = <<>>
    /\ m_audio = [path |-> None, duration |-> 0]
    /\ m_video_duration = 0
    /\ m_image = None
    /\ m_task = None
    /\ m_downloaded = None
    /\ m_combined = None

\* The key check and stage 1: generate_audio_from_text, then the duration.
main_audio ==
    /\ m_pc = "start"
    /\ \E keys \in BOOLEAN, a \in AudioResults :
        IF ~keys
        THEN /\ m_pc' = "end"
             /\ UNCHANGED <<m_log, m_audio, m_video_duration>>
        ELSE /\ m_log' = Append(m_log, "audio")
             /\ m_audio' = a
             /\ IF Truthy(a.path) /\ a.duration > 0
                THEN /\ m_video_duration' = VideoDuration(a.duration)
                     /\ m_pc' = "client"
                ELSE /\ m_pc' = "end"
                     /\ UNCHANGED m_video_duration
    /\ UNCHANGED <<m_image, m_task, m_downloaded, m_combined>>
    /\ UNCHANGED notMn

\* RunwayML(api_key=...) and stage 2: generate_image_from_text.  An
\* exception of the constructor is caught by the outer try.
main_image ==
    /\ m_pc = "client"
    /\ \E raised \in BOOLEAN, url \in ImageResults :
        IF raised
        THEN /\ m_pc' = "end"
             /\ UNCHANGED <<m_log, m_image>>
        ELSE /\ m_log' = Append(m_log, "image")
             /\ m_image' = url
             /\ m_pc' = IF Truthy(url) THEN "video" ELSE "end"
    /\ UNCHANGED <<m_audio, m_video_duration, m_task, m_downloaded, m_combined>>
    /\ UNCHANGED notMn

\* Stage 3: generate_video_from_image.
main_video ==
    /\ m_pc = "video"
    /\ \E id \in TaskResults :
        /\ m_log' = Append(m_log, "video")
        /\ m_task' = id
        /\ m_pc' = IF Truthy(id) THEN "poll" ELSE "end"
    /\ UNCHANGED <<m_audio, m_video_duration, m_image, m_downloaded, m_combined>>
    /\ UNCHANGED notMn

\* Stage 4: wait_for_video, which polls and downloads.
main_poll ==
    /\ m_pc = "poll"
    /\ \E http \in DownloadAnswers \cup {"no video"} :
        /\ m_log' = Append(m_log, "poll")
        /\ m_downloaded' = IF http = "no video" \/ m_task.isNone THEN None
                           ELSE download_video("u1", VideoFile(m_task.val), http)
        /\ m_pc' = IF Truthy(m_downloaded') THEN "combine" ELSE "end"
    /\ UNCHANGED <<m_audio, m_video_duration, m_image, m_task, m_combined>>
    /\ UNCHANGED notMn

\* Stage 5: combine_audio_and_video(downloaded_video_path, audio_file_path,
\* f"final_video_{video_task_id}.mp4").
main_combine ==
    /\ m_pc = "combine"
    /\ m_log' = Append(m_log, "combine")
    /\ m_combined' = Value([video_path |-> m_downloaded,
                            audio_path |-> m_audio.path,
                            output_filename |-> IF m_task.isNone THEN "-"
                                                ELSE "final_video_" \o m_task.val \o ".mp4"])
    /\ m_pc' = "end"
    /\ UNCHANGED <<m_audio, m_video_duration, m_image, m_task, m_downloaded>>
    /\ UNCHANGED notMn

MnNext == main_audio \/ main_image \/ main_video \/ main_poll \/ main_combine

(***************************************************************************)
(* rate_limit.                                                             *)
(***************************************************************************)
\* `@rate_limit(calls=30, period=60)` on RedditPublisherTool.forward.
ForwardCalls == 30
ForwardPeriod == 60

\* Mutant of WindowOver: the window also ends when exactly period has passed.
WindowOverAtPeriod(gone, period) == gone >= period

\* `if now - last_reset > timedelta(seconds=period):`
WindowOver(gone, period) == gone > period

\* Mutant of LimitReached: the wrapper blocks one call early.
LimitReachedEarly(made, limit_calls) == made + 1 >= limit_calls

\* `if calls_made >= calls:`
LimitReached(made, limit_calls) == made >= limit_calls

\* `sleep_time = period - (now - last_reset).total_seconds()`
SleepTime(period, gone) == period - gone

NoCall == [called |-> FALSE, elapsed |-> 0, found |-> 0, reset |-> FALSE,
           slept |-> FALSE, sleep_time |-> 0]

RlInit ==
    /\ r_pc = "module"
    /\ r_calls = 0
    /\ r_period = 0
    /\ since_reset = 0
    /\ calls_made = 0
    /\ r_monotone = TRUE
    /\ r_invoked = FALSE
    /\ r_last = NoCall
    /\ w_armed = "no"
    /\ w_age = 0
    /\ w_count = 0

\* The decorator applied to a function: last_reset = datetime.now(),
\* calls_made = 0.
rate_limit(limit_calls, period) ==
    /\ r_pc = "module"
    /\ r_pc' = "decorated"
    /\ r_calls' = limit_calls
    /\ r_period' = period
    /\ since_reset' = 0
    /\ calls_made' = 0
    /\ UNCHANGED <<r_monotone, r_invoked, r_last, w_armed, w_age, w_count>>
    /\ UNCHANGED notRl

\* The observed interval after `waited` more seconds.
Aged(waited) ==
    IF w_armed = "yes" /\ w_age + waited >= r_period
    THEN [armed |-> "over", age |-> 0, count |-> 0]
    ELSE [armed |-> w_armed,
          age |-> IF w_armed = "yes" THEN w_age + waited ELSE 0,
          count |-> w_count]

\* d seconds pass between invocations.
Tick(d) ==
    /\ r_pc = "decorated"
    /\ since_reset' = IF since_reset > r_period THEN since_reset
                      ELSE since_reset + d
    /\ r_last' = NoCall
    /\ w_armed' = Aged(d).armed
    /\ w_age' = Aged(d).age
    /\ w_count' = Aged(d).count
    /\ UNCHANGED <<r_pc, r_calls, r_period, calls_made, r_monotone, r_invoked>>
    /\ UNCHANGED notRl

\* The wall clock datetime.now() reads is set back by one second.
ClockBack ==
    /\ r_pc = "decorated"
    /\ since_reset > -MaxBack
    /\ since_reset' = since_reset - 1
    /\ r_monotone' = FALSE
    /\ r_last' = NoCall
    /\ UNCHANGED <<r_pc, r_calls, r_period, calls_made, r_invoked,
                   w_armed, w_age, w_count>>
    /\ UNCHANGED notRl

\* One invocation of the wrapper, up to the start of func: both ifs, the
\* sleep inside the second, and calls_made += 1.  arming: whether an observed
\* interval may begin with this invocation.
wrapper_call(arming) ==
    /\ r_pc = "decorated"
    /\ LET over == WindowOver(since_reset, r_period)
           gone == IF over THEN 0 ELSE since_reset
           found == IF over THEN 0 ELSE calls_made
           limit == LimitReached(found, r_calls)
           sleep_time == SleepTime(r_period, gone)
           blocks == limit /\ sleep_time > 0
           waited == IF blocks THEN sleep_time ELSE 0
           w == Aged(waited)
       IN  /\ calls_made' = (IF limit THEN 0 ELSE found) + 1
           /\ since_reset' = IF limit THEN 0 ELSE gone
           /\ r_last' = [called |-> TRUE, elapsed |-> since_reset,
                         found |-> found, reset |-> over \/ limit,
                         slept |-> blocks, sleep_time |-> waited]
           /\ \E arm \in arming :
                IF w.armed = "no" /\ arm
                THEN w_armed' = "yes" /\ w_age' = 0 /\ w_count' = 1
                ELSE /\ w_armed' = w.armed
                     /\ w_age' = w.age
                     /\ w_count' = IF w.armed = "yes" /\ w.count <= r_calls
                                   THEN w.count + 1 ELSE w.count
    /\ r_invoked' = TRUE
    /\ UNCHANGED <<r_pc, r_calls, r_period, r_monotone>>

\* The wrapper around a function that is called directly; an observed
\* interval may begin with any invocation.
wrapper ==
    /\ wrapper_call(BOOLEAN)
    /\ UNCHANGED notRl

\* Any decoration, any clock.
RlNext ==
    \/ \E limit_calls \in 0..MaxCalls, period \in 1..MaxPeriod :
            rate_limit(limit_calls, period)
    \/ Tick(1)
    \/ ClockBack
    \/ wrapper

\* RedditPublisherTool.forward as decorated, under a clock that only advances.
ForwardNext ==
    \/ rate_limit(ForwardCalls, ForwardPeriod)
    \/ Tick(ForwardTick)
    \/ wrapper

(***************************************************************************)
(* TwitterTool.forward.                                                    *)
(***************************************************************************)
\* `text[:280] if len(text) > 280 else text`
TweetLimit == 280

\* A text of n characters, no two neighbours alike.
Text(n) == [i \in 1..n |-> <<"a", "b", "c">>[(i % 3) + 1]]

\* Python's text[:k].
Prefix(text, k) == SubSeq(text, 1, IF Len(text) < k THEN Len(text) ELSE k)

\* Mutant of Cut: the text is posted as it came.
CutNothing(text) == text

\* `text = text[:280] if len(text) > 280 else text`
Cut(text) == IF Len(text) > TweetLimit THEN Prefix(text, TweetLimit) ELSE text

\* What create_tweet does: answers with the new tweet's id, answers without
\* data (response.data is None), or raises.
TweetAnswers == {"id", "no data", "raises"}

TwInit ==
    /\ t_called = FALSE
    /\ t_input = <<>>
    /\ t_tweets = <<>>
    /\ t_result = None
    /\ t_raised = "none"

\* TwitterTool.forward(text): one call, whole.
twitter_forward ==
    /\ ~t_called
    /\ \E n \in 0..MaxText, answer \in TweetAnswers :
        LET text == Cut(Text(n)) IN
        /\ t_input' = Text(n)
        /\ t_tweets' = <<text>>
        /\ t_result' = IF answer = "id"
                       THEN Value([success |-> TRUE, tweet_id |-> "1", text |-> text,
                                   url |-> "https://twitter.com/user/status/1"])
                       ELSE None
        /\ t_raised' = CASE answer = "id" -> "none"
                         [] answer = "no data" -> "TypeError"
                         [] OTHER -> "TweepyException"
    /\ t_called' = TRUE
    /\ UNCHANGED notTw

\* The caller takes what forward gave and goes on.
twitter_taken ==
    /\ t_called
    /\ t_called' = FALSE
    /\ t_input' = <<>>
    /\ t_tweets' = <<>>
    /\ t_result' = None
    /\ t_raised' = "none"
    /\ UNCHANGED notTw

TwNext == twitter_forward \/ twitter_taken

(***************************************************************************)
(* run_growth_system.                                                      *)
(***************************************************************************)
\* Platform names the selector may answer; platform_map has no entry for
\* the last one.
PlatformNames == {"TikTok", "Reddit", "Mastodon"}
Supported == {"TikTok", "Reddit"}
PlatformInfos == [platform : PlatformNames, priority : 1..2]
PlatformLists == UNION { [1..n -> PlatformInfos] : n \in 0..MaxPlatforms }

\* What select_platforms returns: a dict with the key "error" (one of its
\* own two, or a parsed answer that has the key), a parsed answer with
\* selected_platforms, or a parsed answer without that key.
Selections ==
    {[kind |-> "error", selected_platforms |-> <<>>],
     [kind |-> "no list", selected_platforms |-> <<>>]}
    \cup {[kind |-> "platforms", selected_platforms |-> l] : l \in PlatformLists}

EmptyDict == [k \in {} |-> None]

\* d[key] = value on a Python dict.
DictSet(d, key, value) ==
    [k \in DOMAIN d \cup {key} |-> IF k = key THEN value ELSE d[k]]

\* What create_platform_content returns on its n-th call of this run: the
\* error string for a platform platform_map does not know, else what the
\* platform agent wrote.
Content(platform, n) ==
    IF platform \in Supported
    THEN <<"strategy", platform, n>>
    ELSE <<"Error: Platform not supported", platform, n>>

GrInit ==
    /\ g_pc = "idle"
    /\ g_selection = [kind |-> "error", selected_platforms |-> <<>>]
    /\ g_next = 1
    /\ g_created = <<>>
    /\ g_strategies = EmptyDict
    /\ g_result = None
    /\ g_raised = "none"

\* run_growth_system up to the for loop: select_platforms and the test for
\* the key "error".
run_growth_system_select ==
    /\ g_pc = "idle"
    /\ \E raised \in BOOLEAN, sel \in Selections :
        IF raised
        THEN /\ g_raised' = "Exception"
             /\ g_pc' = "done"
             /\ UNCHANGED <<g_selection, g_result>>
        ELSE /\ g_selection' = sel
             /\ CASE sel.kind = "error" ->
                      /\ g_result' = Value(sel)
                      /\ g_pc' = "done"
                      /\ UNCHANGED g_raised
                  [] sel.kind = "no list" ->
                      /\ g_raised' = "KeyError"
                      /\ g_pc' = "done"
                      /\ UNCHANGED g_result
                  [] OTHER ->
                      /\ g_pc' = "loop"
                      /\ UNCHANGED <<g_result, g_raised>>
    /\ UNCHANGED <<g_next, g_created, g_strategies>>
    /\ UNCHANGED notGr

\* One pass of `for platform_info in platform_selection['selected_platforms']`,
\* or the return after the last.
run_growth_system_loop ==
    /\ g_pc = "loop"
    /\ IF g_next <= Len(g_selection.selected_platforms)
       THEN LET info == g_selection.selected_platforms[g_next] IN
            \E raised \in BOOLEAN :
                /\ g_created' = Append(g_created, info.platform)
                /\ IF raised /\ info.platform \in Supported
                   THEN /\ g_raised' = "Exception"
                        /\ g_pc' = "done"
                        /\ UNCHANGED <<g_next, g_strategies>>
                   ELSE /\ g_strategies' =
                             DictSet(g_strategies, info.platform,
                                     [priority |-> info.priority,
                                      content_strategy |->
                                          Content(info.platform, Len(g_created) + 1)])
                        /\ g_next' = g_next + 1
                        /\ UNCHANGED <<g_pc, g_raised>>
                /\ UNCHANGED g_result
       ELSE /\ g_result' = Value([selected_platforms |-> g_selection.selected_platforms,
                                  content_strategies |-> g_strategies])
            /\ g_pc' = "done"
            /\ UNCHANGED <<g_next, g_created, g_strategies, g_raised>>
    /\ UNCHANGED g_selection
    /\ UNCHANGED notGr

GrNext == run_growth_system_select \/ run_growth_system_loop

(***************************************************************************)
(* The Reddit tools: RedditPublisherTool.forward (basic_reddit_agent.py),  *)
(* publish_post (reddit_agent.py), RedditCommenterTool.forward.            *)
(***************************************************************************)
\* `max_tries=3` of @backoff.on_exception.
MaxTries == 3
\* `len(title) > 300`, `len(content) > 40000`.
TitleMax == 300
ContentMax == 40000

Tools == {"RedditPublisherTool.forward", "publish_post", "RedditCommenterTool.forward"}
Publishers == {"RedditPublisherTool.forward", "publish_post"}

\* Arguments: title and content by their length; "None" is Python's None.
TitleLengths == {0, 1, TitleMax, TitleMax + 1}
ContentLengths == {0, 1, ContentMax, ContentMax + 1}
Subreddits == {"", "python"}
PostTypes == {"None", "", "text", "link", "image"}
Urls == {"None", "", "https://x"}
NoArgs == [title |-> 0, content |-> 0, subreddit |-> "", post_type |-> "None",
           url |-> "None", post_url |-> "", parent_comment_id |-> "None"]
PublishArgs ==
    {[NoArgs EXCEPT !.title = t, !.content = c, !.subreddit = sub,
                    !.post_type = pt, !.url = u] :
        t \in TitleLengths, c \in ContentLengths, sub \in Subreddits,
        pt \in PostTypes, u \in Urls}
\* post_url: one _extract_submission_id finds an id in, and one it does not.
CommentArgs ==
    {[NoArgs EXCEPT !.post_url = pu, !.parent_comment_id = pid, !.content = 1] :
        pu \in {"https://reddit.com/r/python/comments/abc/t", "https://x"},
        pid \in {"None", "c1"}}

\* `not x` for a string or None.
Falsy(x) == x \in {"None", ""}

\* _validate_inputs, and the same five tests at the top of publish_post:
\* TRUE when none of them raises ValueError.
ValidInputs(a) ==
    /\ ~(a.title = 0 \/ a.title > TitleMax)
    /\ ~(a.content = 0 \/ a.content > ContentMax)
    /\ ~Falsy(a.subreddit)
    /\ ~(~Falsy(a.post_type) /\ a.post_type \notin {"text", "link"})
    /\ ~(a.post_type = "link" /\ Falsy(a.url))

\* What one run of a tool's body does before Reddit answers: raises, returns,
\* or makes one call to Reddit.
Raises(exc) == [do |-> "raise", exc |-> exc, call |-> <<>>]
Returns(text) == [do |-> "return", exc |-> "none", call |-> <<text>>]
Calls(what, title, payload) ==
    [do |-> "call", exc |-> "none", call |-> <<what, title, payload>>]

\* `if post_type is None: post_type = "text"`
PostType(a) == IF a.post_type = "None" THEN "text" ELSE a.post_type

\* RedditPublisherTool.forward: if text / elif link (url required) / else raise.
ForwardBody(a) ==
    IF ~ValidInputs(a) THEN Raises("ValueError")
    ELSE IF PostType(a) = "text" THEN Calls("submit selftext", a.title, a.content)
    ELSE IF PostType(a) = "link"
         THEN IF Falsy(a.url) THEN Raises("ValueError")
              ELSE Calls("submit url", a.title, a.url)
    ELSE Raises("ValueError")

\* publish_post: if text / else (commented `# post_type == "link"`).
PublishPostBody(a) ==
    IF ~ValidInputs(a) THEN Raises("ValueError")
    ELSE IF PostType(a) = "text" THEN Calls("submit selftext", a.title, a.content)
    ELSE Calls("submit url", a.title, a.url)

\* RedditCommenterTool.forward up to the reply.
CommenterBody(a) ==
    IF a.post_url = "https://x" THEN Returns("Erreur: Impossible d'extraire l'ID")
    ELSE IF ~Falsy(a.parent_comment_id)
         THEN Calls("comment reply", a.parent_comment_id, a.content)
    ELSE Calls("submission reply", a.post_url, a.content)

Body(tool, a) ==
    CASE tool = "RedditPublisherTool.forward" -> ForwardBody(a)
      [] tool = "publish_post" -> PublishPostBody(a)
      [] OTHER -> CommenterBody(a)

\* What Reddit does with a submit or a reply.
RedditAnswers == {"ok", "RedditAPIException", "Exception"}

\* The exception that leaves the tool's function on one attempt ("none": it
\* returns).  The publishers log and re-raise; the commenter's except
\* clauses return an error string instead.
Escapes(tool, body, answer) ==
    IF body.do = "raise" THEN body.exc
    ELSE IF body.do = "return" \/ answer = "ok" THEN "none"
    ELSE IF tool \in Publishers THEN answer
    ELSE "none"

\* Mutant of Retried: backoff retries on every exception.
RetriedAny(exc) == exc # "none"

\* `backoff.on_exception(backoff.expo, praw.exceptions.RedditAPIException, ...)`
Retried(exc) == exc = "RedditAPIException"

\* Mutant of GivesUp: one more attempt than max_tries.
GivesUpLate(tries) == tries > MaxTries

\* backoff gives up once max_tries attempts were made.
GivesUp(tries) == tries >= MaxTries

\* Mutant of Limited: only the first attempt goes through the limiter, as if
\* @rate_limit were the outer decorator.
LimitedFirstOnly(attempt) == attempt = 1

\* @backoff.on_exception is the outer decorator, @rate_limit the inner one:
\* every attempt calls the limiter's wrapper.
Limited(attempt) == attempt >= 1

NoOutcomeYet == [returned |-> FALSE, exc |-> "none"]

PbInit ==
    /\ p_tool = "-"
    /\ p_pc = "idle"
    /\ p_args = NoArgs
    /\ p_tries = 0
    /\ p_log = <<>>
    /\ p_reddit = <<>>
    /\ p_outcome = NoOutcomeYet
    /\ p_made0 = 0
    /\ p_reset = FALSE
    /\ p_after = 0
    /\ p_slept = 0

\* Which of the decorated functions this closure of rate_limit belongs to.
decorated_tool ==
    /\ p_tool = "-"
    /\ r_pc = "decorated"
    /\ p_tool' \in Tools
    /\ UNCHANGED <<p_pc, p_args, p_tries, p_log, p_reddit, p_outcome,
                   p_made0, p_reset, p_after, p_slept>>
    /\ UNCHANGED notPb

\* The agent calls the tool: backoff's retry loop begins.
tool_called ==
    /\ p_tool # "-"
    /\ p_pc = "idle"
    /\ p_args' \in IF p_tool \in Publishers THEN PublishArgs ELSE CommentArgs
    /\ p_pc' = "trying"
    /\ p_made0' = calls_made
    /\ UNCHANGED <<p_tool, p_tries, p_log, p_reddit, p_outcome, p_reset,
                   p_after, p_slept>>
    /\ UNCHANGED notPb

\* One attempt inside backoff's loop: the limiter's wrapper, the tool's
\* body with its one call to Reddit, and backoff's decision to try again,
\* to give up, or to let the exception through.
tool_attempt ==
    /\ p_pc = "trying"
    /\ IF Limited(p_tries + 1)
       THEN wrapper_call({FALSE})
       ELSE UNCHANGED rlVars
    /\ \E answer \in RedditAnswers :
        LET body == Body(p_tool, p_args)
            exc == Escapes(p_tool, body, answer)
            tries == p_tries + 1
        IN  /\ (body.do # "call") => answer = "ok"
            /\ p_tries' = tries
            /\ p_log' = Append(p_log, exc)
            /\ p_reddit' = IF body.do = "call"
                           THEN Append(p_reddit, [call |-> body.call, answer |-> answer])
                           ELSE p_reddit
            /\ IF exc = "none"
               THEN p_outcome' = [returned |-> TRUE, exc |-> "none"] /\ p_pc' = "done"
               ELSE IF Retried(exc) /\ ~GivesUp(tries)
               THEN UNCHANGED <<p_outcome, p_pc>>
               ELSE p_outcome' = [returned |-> FALSE, exc |-> exc] /\ p_pc' = "done"
    /\ p_reset' = (p_reset \/ r_last'.reset)
    /\ p_after' = IF r_last'.reset THEN 1 ELSE p_after + 1
    /\ p_slept' = IF r_last'.slept THEN p_slept + 1 ELSE p_slept
    /\ UNCHANGED <<p_tool, p_args, p_made0>>
    /\ UNCHANGED notPbRl

\* The caller takes the outcome and goes on.
tool_taken ==
    /\ p_pc = "done"
    /\ p_pc' = "idle"
    /\ p_args' = NoArgs
    /\ p_tries' = 0
    /\ p_log' = <<>>
    /\ p_reddit' = <<>>
    /\ p_outcome' = NoOutcomeYet
    /\ p_made0' = 0
    /\ p_reset' = FALSE
    /\ p_after' = 0
    /\ p_slept' = 0
    /\ UNCHANGED p_tool
    /\ UNCHANGED notPb

\* One decorated Reddit tool, its limiter and the clock.
PbNext ==
    \/ rate_limit(MaxCalls, MaxPeriod)
    \/ decorated_tool
    \/ Tick(1)
    \/ tool_called
    \/ tool_attempt
    \/ tool_taken

Init == RwInit /\ AsInit /\ DlInit /\ MnInit /\ RlInit /\ TwInit /\ GrInit /\ PbInit

\* The RunwayML pollers under any caller and any stub.
SpecRunway == Init /\ [][RwNext]_vars

\* send_async_generation_request under any caller, service and budget.
SpecAsync == Init /\ [][AsNext]_vars

\* download_video under any caller, server and directory content.
SpecDownload == Init /\ [][DlNext]_vars

\* One run of the main pipeline under any outcome of its stages.
SpecMain == Init /\ [][MnNext]_vars

\* A function under rate_limit with any small arguments.
SpecRate == Init /\ [][RlNext]_vars

\* The decorated forward of RedditPublisherTool.
SpecForward == Init /\ [][ForwardNext]_vars

\* TwitterTool.forward called with any text, any number of times.
SpecTweet == Init /\ [][TwNext]_vars

\* One run of run_growth_system under any answer of the selector.
SpecGrowth == Init /\ [][GrNext]_vars

\* A Reddit tool called again and again, with any arguments.
SpecPublish == Init /\ [][PbNext]_vars

\* One caller, one poller at a time: every poll loop blocks its caller's
\* thread until it returns, and no script of the repository starts a thread.
PollersNext ==
    \/ a_pc = "idle" /\ Invoke
    \/ a_pc = "idle" /\ Resume
    \/ a_pc = "idle" /\ wait_for_image_retrieve
    \/ a_pc = "idle" /\ wait_for_image_sleep
    \/ a_pc = "idle" /\ wait_for_video_retrieve
    \/ a_pc = "idle" /\ wait_for_video_sleep
    \/ pc = "idle" /\ send_async_submit
    \/ pc = "idle" /\ send_async_poll
    \/ pc = "idle" /\ send_async_sleep
    \/ pc = "idle" /\ AsyncResume

\* The three poll loops under one caller.
SpecPollers == Init /\ [][PollersNext]_vars

\* A called poller keeps running: the process is not stopped while it polls.
FairRunway == SpecRunway /\ WF_vars(RwPoll)

(***************************************************************************)
(* Properties of the RunwayML pollers (SpecRunway, FairRunway).            *)
(***************************************************************************)
IsPending(t) == ~t.raised /\ t.status \notin {"SUCCEEDED", "FAILED"}
IsSucceeded(t) == ~t.raised /\ t.status = "SUCCEEDED"
IsFailed(t) == ~t.raised /\ t.status = "FAILED"
HasLocator(t) == t.hasOutput /\ Len(t.output) > 0
Polling == pc \in {"retrieve", "sleep", "done"}

\* The stub answers a non-terminal status n times and then SUCCEEDED.
RunsThenSucceeds(n) ==
    /\ \A i \in 1..n : IsPending(StatusFetch(i))
    /\ IsSucceeded(StatusFetch(n + 1))

\* C1: against a stub that answers a non-terminal status N times and then
\* SUCCEEDED, the poller makes exactly N+1 status calls (never more on the
\* way) and returns what the first locator output[0] gives: the URL itself
\* from wait_for_image; from wait_for_video the path of the file that URL,
\* and no other, was downloaded to.
C1_PollsUntilSucceeded ==
    \A n \in 0..MaxScript :
        (Polling /\ RunsThenSucceeds(n)) =>
            /\ calls <= n + 1
            /\ pc = "done" =>
                LET t == StatusFetch(n + 1) IN
                /\ calls = n + 1
                /\ HasLocator(t) =>
                    IF kind = "image"
                    THEN result = Value(<<t.output[1]>>)
                    ELSE /\ Len(fetched) = 1
                         /\ fetched[1].url = t.output[1]
                         /\ fetched[1].http = "200" =>
                              result = Value(<<"generated_videos",
                                               "runway_video_" \o task_id \o ".mp4">>)

C1_Witness ==
    /\ pc = "done"
    /\ kind = "video"
    /\ RunsThenSucceeds(2)
    /\ HasLocator(StatusFetch(3))
    /\ calls = 3
    /\ ~result.isNone

\* The stub answers RUNNING to every status call.
AlwaysRunning == \A i \in 1..(MaxScript + 1) : StatusFetch(i) = StatusAnswer("RUNNING")

\* C3: a poller called against a stub that always answers RUNNING and never
\* raises eventually returns to its caller (with a Timeout outcome).
C3_PollerReturns == (pc = "retrieve" /\ AlwaysRunning) ~> (pc = "done")

\* C6: when the first status call answers FAILED the poller returns a
\* failure (None, nothing raised) after exactly one status call, and it
\* never sleeps.
C6_FailedFirstNoSleep ==
    (Polling /\ IsFailed(StatusFetch(1))) =>
        /\ sleeps = 0
        /\ pc # "sleep"
        /\ calls <= 1
        /\ pc = "done" => (calls = 1 /\ result = None /\ escaped = "none")

C6_Witness ==
    /\ pc = "done"
    /\ IsFailed(StatusFetch(1))
    /\ calls = 1
    /\ sleeps = 0
    /\ result = None

\* C9: what the caller gets for a transport error, for a remote FAILED and
\* for a malformed SUCCEEDED payload is pairwise distinguishable: two
\* invocations that failed for different causes never hand the caller the
\* same value with the same (absent) exception.
C9_FailuresDistinguishable ==
    (/\ pc = "done"
     /\ Cause(task) \in FailCauses
     /\ prevFail.cause \in FailCauses
     /\ prevFail.cause # Cause(task))
        => (prevFail.value # result \/ prevFail.exc # escaped)

\* C10: a SUCCEEDED payload whose output list is missing or empty ends the
\* poller with a failure outcome (None) and no exception leaves the poller.
C10_MalformedSucceededFails ==
    (pc = "done" /\ IsSucceeded(task) /\ ~HasLocator(task)) =>
        (result = None /\ escaped = "none" /\ fetched = <<>>)

C10_Witness ==
    /\ pc = "done"
    /\ kind = "video"
    /\ IsSucceeded(task)
    /\ task.hasOutput
    /\ task.output = <<>>
    /\ calls = 2
    /\ result = None

(***************************************************************************)
(* Properties of send_async_generation_request (SpecAsync).                *)
(***************************************************************************)
\* The wait budget T the environment asks for.
Budget == IF a_env.set THEN a_env.val ELSE 500
\* ceil(T / P) for the fixed interval of 10 seconds.
CeilPolls == (Budget + 9) \div 10
\* Every status call so far was answered 202.
All202 == a_pending = a_calls
\* Status calls took negligible time: less than one interval in total.
Negligible == a_latency < 10

\* C2: while every status call answers 202 and the calls take negligible
\* time, the loop makes at most ceil(T/P)+1 status calls, is back at its top
\* only while at most ceil(T/P) were made, and ends only with the Timeout
\* failure, after no fewer than ceil(T/P)-1 status calls
\* (T = WORKER_TIMEOUT, or 500 when unset; P = 10).
C2_TimeoutWithinOnePoll ==
    (a_pc \in {"poll", "sleep", "done"} /\ All202 /\ Negligible) =>
        /\ a_calls <= CeilPolls + 1
        /\ a_pc = "poll" => a_calls <= CeilPolls
        /\ (a_pc = "done" /\ a_calls >= 1) =>
              (outcome = RaiseTimeout /\ a_calls >= CeilPolls - 1)

C2_Witness ==
    /\ a_pc = "done"
    /\ ~a_env.set
    /\ outcome = RaiseTimeout
    /\ a_calls = 51
    /\ All202
    /\ a_latency = 0

\* C4: a run in which a status call was answered with success (ok and not
\* 202) ends by returning that response, never in a Timeout failure.
C4_SuccessIsReturned ==
    (a_pc = "done" /\ a_success) => outcome = Returned(status_code)

C7_SleepsEqualPending ==
    (a_pc \in {"poll", "done"}) => a_sleeps = a_pending

\* C8: the exception the caller gets for an exceeded budget is of another
\* class than the one it gets when the service reports failure on a status
\* call.
C8_TimeoutDistinctFromRemoteFailure ==
    (/\ a_pc = "done"
     /\ {RaiseCause(outcome, a_calls > 0), a_prevRaise.cause} = {"timeout", "remote_failure"})
        => outcome.exc # a_prevRaise.exc

(***************************************************************************)
(* Properties of the three poll loops together (SpecPollers).              *)
(***************************************************************************)
\* The stub's first k-1 answers are non-terminal and its k-th call raises.
RaisesAtCall(k) ==
    /\ \A i \in 1..(k - 1) : IsPending(StatusFetch(i))
    /\ StatusFetch(k).raised

\* C11: a transport error on a status call ends the poll at once as a
\* failure. RunwayML loops: when call k is the first to raise, the poller
\* never makes a call k+1 nor a k-th sleep, and after call k it has returned
\* None. Results loop: once a status request raised or was answered not ok,
\* the function has left by raising, that request was the only failed one,
\* and every earlier request, and no other, was followed by one sleep.
C11_TransportErrorEndsPoll ==
    /\ \A k \in 1..(MaxScript + 1) :
          (Polling /\ RaisesAtCall(k)) =>
              /\ calls <= k
              /\ sleeps <= k - 1
              /\ calls = k => (pc = "done" /\ result = None /\ escaped = "none")
    /\ a_errors >= 1 =>
          /\ a_errors = 1
          /\ a_pc = "done"
          /\ outcome.how = "raise"
          /\ a_sleeps = a_calls - 1

C11_Witness ==
    /\ a_pc = "done"
    /\ a_errors = 1
    /\ a_calls = 2
    /\ a_sleeps = 1
    /\ outcome = RaiseHttp(404)
    /\ prevFail.cause = "transport"

\* C13: between two consecutive status calls of a job exactly one sleep of
\* the fixed interval elapses: whenever a loop is back at its top after a
\* call, it has slept once per call made and the time slept since the last
\* call is 5 seconds in wait_for_image and 10 seconds in wait_for_video and
\* in send_async_generation_request.
C13_OneSleepBetweenCalls ==
    /\ (pc = "retrieve" /\ calls >= 1) =>
          /\ slept = (IF kind = "image" THEN 5 ELSE 10)
          /\ sleeps = calls
    /\ (pc = "sleep" \/ pc = "done") => slept = 0
    /\ (a_pc = "poll" /\ a_calls >= 1) => (a_slept = 10 /\ a_sleeps = a_calls)

C13_Witness ==
    /\ pc = "retrieve"
    /\ kind = "image"
    /\ calls = 2
    /\ slept = 5
    /\ a_prevRaise.cause = "timeout"

(***************************************************************************)
(* More properties of send_async_generation_request (SpecAsync).           *)
(***************************************************************************)
\* C12: when the accepted submit response carries no id the call fails by
\* the assertion before the loop: no status request and no sleep is made.
C12_MissingIdFailsBeforePolling ==
    generation_id = "None" =>
        /\ a_pc = "done"
        /\ outcome = RaiseAssert
        /\ a_calls = 0
        /\ a_sleeps = 0
        /\ a_requests = <<"POST generate">>

C12_Witness ==
    /\ generation_id = "None"
    /\ a_pc = "done"
    /\ outcome.exc = "AssertionError"

\* C14: the function sends the one submit request and after it nothing but
\* status requests; in particular, when it leaves by Timeout no request that
\* could cancel or change the remote job was sent.
C14_OnlyStatusRequests ==
    /\ a_requests \in {<<>>, <<"POST generate">>, <<"POST generate", "GET results">>}
    /\ outcome = RaiseTimeout => a_requests = <<"POST generate", "GET results">>

C14_Witness ==
    /\ a_pc = "done"
    /\ outcome = RaiseTimeout
    /\ a_calls = 2
    /\ a_requests = <<"POST generate", "GET results">>

(***************************************************************************)
(* Properties of download_video (SpecDownload).                            *)
(***************************************************************************)
\* C15: given a 200 answer whose stream comes through, download_video has
\* made the directory (when it was absent), the file holds exactly the
\* chunks received, in arrival order, and the file's path is returned; while
\* it writes, the file holds the chunks received so far.
C15_DownloadWritesAllChunks ==
    /\ d_pc = "writing" =>
          (d_dir /\ d_file = File(SubSeq(d_stream, 1, d_pos)))
    /\ (d_pc = "done" /\ d_status = 200 /\ ~d_breaks) =>
          /\ d_dir
          /\ d_file = File(d_stream)
          /\ d_result = Value(<<"generated_videos", d_filename>>)

C15_Witness ==
    /\ d_pc = "done"
    /\ d_status = 200
    /\ ~d_breaks
    /\ ~d_before.dir
    /\ d_stream = <<"b", "a">>
    /\ ~d_result.isNone

\* C16 as stated: a non-2xx answer gives a failure after exactly one HTTP
\* request and leaves the directory and the file as they were, and every
\* 2xx answer whose stream comes through gives the file's path.
C16_Non2xxFailsAll2xxSucceed ==
    (d_pc = "done" /\ d_status # 0) =>
        IF d_status >= 200 /\ d_status < 300
        THEN ~d_breaks => d_result = Value(<<"generated_videos", d_filename>>)
        ELSE /\ d_result = None
             /\ d_requests = 1
             /\ d_dir = d_before.dir
             /\ d_file = d_before.file

\* C16 amended: every answer other than 200, the non-2xx ones among them,
\* gives a failure after exactly one HTTP request and leaves the directory
\* and the file as they were; only a 200 answer is treated as success.
C16_Not200Fails ==
    /\ d_pc = "writing" => (d_status = 200 /\ d_requests = 1)
    /\ (d_pc = "done" /\ d_status # 200) =>
          /\ d_result = None
          /\ d_requests = 1
          /\ d_dir = d_before.dir
          /\ d_file = d_before.file
    /\ (d_pc = "done" /\ d_status = 200 /\ ~d_breaks) =>
          (d_requests = 1 /\ d_result = Value(<<"generated_videos", d_filename>>))

C16_Witness ==
    /\ d_pc = "done"
    /\ d_status = 404
    /\ d_result = None
    /\ d_requests = 1
    /\ d_before.file = File(<<"old">>)
    /\ d_file = File(<<"old">>)

(***************************************************************************)
(* Properties of the main pipeline (SpecMain).                             *)
(***************************************************************************)
Stages == <<"audio", "image", "video", "poll", "combine">>
Ran(stage) == \E i \in 1..Len(m_log) : m_log[i] = stage
Exists(v) == ~v.isNone /\ v.val # ""

\* C17: the stages run in the order audio, image task, video task, video
\* poll and download, combine, each at most once and none skipped; the image
\* stage runs only after audio succeeded, the video task is created only
\* after image generation gave a URL, the poll runs only after task creation
\* gave an id, and combine_audio_and_video is invoked only with an existing
\* audio path and an existing downloaded video path.
C17_StagesInOrder ==
    /\ Len(m_log) <= Len(Stages)
    /\ m_log = SubSeq(Stages, 1, Len(m_log))
    /\ Ran("image") => (Exists(m_audio.path) /\ m_audio.duration > 0)
    /\ Ran("video") => Exists(m_image)
    /\ Ran("poll") => Exists(m_task)
    /\ Ran("combine") =>
          /\ Exists(m_downloaded)
          /\ Exists(m_audio.path)
          /\ m_combined = Value([video_path |-> m_downloaded,
                                 audio_path |-> m_audio.path,
                                 output_filename |-> "final_video_" \o m_task.val \o ".mp4"])
    /\ m_combined.isNone \/ Ran("combine")

C17_Witness ==
    /\ m_pc = "end"
    /\ m_log = Stages
    /\ ~m_combined.isNone
    /\ m_combined.val.video_path = Value(<<"generated_videos", "runway_video_t2.mp4">>)

(***************************************************************************)
(* Properties of rate_limit (SpecForward, SpecRate).                       *)
(***************************************************************************)
\* C18: under rate_limit(calls=30, period=60), within any interval of 60
\* seconds (here: any interval shorter than 60 seconds that begins with an
\* invocation) at most 30 invocations of the wrapped function are started.
C18_AtMostCallsPerPeriod ==
    (r_calls = ForwardCalls /\ r_period = ForwardPeriod /\ w_armed = "yes") =>
        w_count <= ForwardCalls

\* C19: with calls >= 1, calls_made is always within 0..calls and, once the
\* wrapper has been invoked, within 1..calls; an invocation resets it to 0
\* only if it finds more than period seconds passed since last_reset or finds
\* the limit reached.
C19_CounterWithinLimit ==
    (r_pc = "decorated" /\ r_calls >= 1) =>
        /\ calls_made \in 0..r_calls
        /\ r_invoked => calls_made \in 1..r_calls
        /\ (r_last.called /\ r_last.reset) =>
              (r_last.elapsed > r_period \/ r_last.found >= r_calls)
        /\ (r_last.called /\ ~r_last.reset /\ r_last.found > 0) =>
              calls_made = r_last.found + 1

C19_Witness ==
    /\ r_calls = 2
    /\ r_last.called
    /\ r_last.reset
    /\ r_last.elapsed <= r_period
    /\ r_last.found = 2
    /\ calls_made = 1

\* C20: while the clock was never set back, a sleep of the wrapper lasts more
\* than 0 and at most period seconds, and only an invocation that finds
\* calls_made >= calls sleeps.
C20_SleepWithinPeriod ==
    (r_monotone /\ r_last.called /\ r_last.slept) =>
        /\ r_last.sleep_time > 0
        /\ r_last.sleep_time <= r_period
        /\ r_last.found >= r_calls

C20_Witness ==
    /\ r_monotone
    /\ r_last.called
    /\ r_last.slept
    /\ r_calls >= 1
    /\ r_last.sleep_time = r_period
    /\ r_period = MaxPeriod

\* C26: for every audio duration greater than 0 the requested video duration
\* is 5 or 10, and it is whichever of the two is closest to the audio length
\* (lengths compared in tenths of a second).
Distance(a, b) == IF a >= b THEN a - b ELSE b - a

C26_ClosestDuration ==
    (Ran("audio") /\ Exists(m_audio.path) /\ m_audio.duration > 0) =>
        /\ m_video_duration \in {5, 10}
        /\ Distance(10 * m_video_duration, m_audio.duration) <=
              Distance(10 * (15 - m_video_duration), m_audio.duration)

(***************************************************************************)
(* Liveness of the RunwayML pollers (FairRunway).                          *)
(***************************************************************************)
\* A status call still to come answers SUCCEEDED or FAILED.
ReportsTerminal ==
    \E i \in (calls + 1)..(MaxScript + 1) :
        IsSucceeded(StatusFetch(i)) \/ IsFailed(StatusFetch(i))

\* Every status call still to come answers some other status.
SettledPending ==
    \A i \in (calls + 1)..(CountCap + 1) : IsPending(StatusFetch(i))

\* C28: a poller has returned only after a status call that answered
\* SUCCEEDED or FAILED or raised, and it sleeps only after any other answer;
\* a poller whose job reports SUCCEEDED or FAILED on a status call still to
\* come eventually returns; a poller whose job answers another status (such
\* as CANCELLED) to every call still to come never returns.
C28_ReturnsIffTerminal ==
    /\ [](pc = "done" => (calls >= 1 /\ ~IsPending(task)))
    /\ [](pc = "sleep" => IsPending(task))
    /\ (pc = "retrieve" /\ ReportsTerminal) ~> (pc = "done")
    /\ []((pc \in {"retrieve", "sleep"} /\ SettledPending) => [](pc # "done"))

C28_Witness ==
    /\ pc = "retrieve"
    /\ kind = "video"
    /\ calls > MaxScript + 1
    /\ SettledPending
    /\ tail = StatusAnswer("CANCELLED")
    /\ sleeps = calls

(***************************************************************************)
(* Properties of TwitterTool.forward (SpecTweet).                          *)
(***************************************************************************)
\* C25: create_tweet is called exactly once per call of forward, with the
\* input text itself when that has at most 280 characters and with exactly
\* its first 280 characters otherwise; a returned result reports that same
\* text.
C25_TweetAtMost280 ==
    t_called =>
        /\ Len(t_tweets) = 1
        /\ Len(t_tweets[1]) <= 280
        /\ Len(t_input) <= 280 => t_tweets[1] = t_input
        /\ Len(t_input) > 280 =>
              /\ Len(t_tweets[1]) = 280
              /\ \A i \in 1..280 : t_tweets[1][i] = t_input[i]
        /\ ~t_result.isNone => t_result.val.text = t_tweets[1]

C25_Witness ==
    /\ t_called
    /\ Len(t_input) = 281
    /\ Len(t_tweets) = 1
    /\ Len(t_tweets[1]) = 280
    /\ ~t_result.isNone

(***************************************************************************)
(* Properties of run_growth_system (SpecGrowth).                           *)
(***************************************************************************)
\* C29: when the selection is an error it is returned unchanged and
\* create_platform_content is never called; otherwise, when the run returns,
\* create_platform_content was called once per element of selected_platforms,
\* in list order, and content_strategies holds exactly one entry for each
\* element, carrying that element's priority.
C29_OneStrategyPerElement ==
    (g_pc = "done" /\ g_raised = "none") =>
        LET sel == g_selection.selected_platforms IN
        IF g_selection.kind = "error"
        THEN g_result = Value(g_selection) /\ g_created = <<>>
        ELSE /\ g_created = [i \in 1..Len(sel) |-> sel[i].platform]
             /\ Cardinality(DOMAIN g_result.val.content_strategies) = Len(sel)
             /\ \A i \in 1..Len(sel) :
                   /\ sel[i].platform \in DOMAIN g_result.val.content_strategies
                   /\ g_result.val.content_strategies[sel[i].platform].priority
                         = sel[i].priority

(***************************************************************************)
(* Properties of the Reddit tools (SpecPublish).                           *)
(***************************************************************************)
AllApiErrors(log) == \A i \in 1..Len(log) : log[i] = "RedditAPIException"
IsPublisher == p_tool \in Publishers
IsLink(c) == c.call[1] = "submit url"
IsText(c) == c.call[1] = "submit selftext"

\* C21: a publish tool whose submit raises RedditAPIException on every
\* attempt makes exactly 3 attempts and the exception then reaches the
\* caller; when an attempt k <= 3 succeeds its result is returned and no
\* further attempt is made (every attempt before it raised
\* RedditAPIException).
C21_ThreeAttempts ==
    IsPublisher =>
        /\ p_tries = Len(p_log)
        /\ p_tries <= 3
        /\ p_pc = "trying" => (AllApiErrors(p_log) /\ p_tries < 3)
        /\ (p_pc = "done" /\ AllApiErrors(p_log)) =>
              /\ p_tries = 3
              /\ Len(p_reddit) = 3
              /\ p_outcome = [returned |-> FALSE, exc |-> "RedditAPIException"]
        /\ (p_pc = "done" /\ p_log[p_tries] = "none") =>
              /\ p_outcome = [returned |-> TRUE, exc |-> "none"]
              /\ AllApiErrors(SubSeq(p_log, 1, p_tries - 1))
              /\ Len(p_reddit) = p_tries
              /\ p_reddit[p_tries].answer = "ok"

C21_Witness ==
    /\ p_tool = "publish_post"
    /\ p_pc = "done"
    /\ p_log = <<"RedditAPIException", "RedditAPIException", "RedditAPIException">>
    /\ Len(p_reddit) = 3
    /\ p_outcome.exc = "RedditAPIException"

\* C22: whenever the reply call of RedditCommenterTool.forward raises
\* RedditAPIException the call is tried again, up to 3 attempts in total: a
\* call whose last reply raised it has made 3 attempts.
C22_CommenterRetried ==
    (p_tool = "RedditCommenterTool.forward" /\ p_pc = "done" /\ Len(p_reddit) > 0
     /\ p_reddit[Len(p_reddit)].answer = "RedditAPIException") =>
        p_tries = 3

\* The inputs C23 lists.
C23_BadInput ==
    \/ p_args.title = 0 \/ p_args.title > 300
    \/ p_args.content = 0 \/ p_args.content > 40000
    \/ p_args.subreddit = ""
    \/ p_args.post_type \notin {"None", "", "text", "link"}
    \/ (p_args.post_type = "link" /\ p_args.url \in {"None", ""})

\* C23: a publish tool called with an empty or over-long title or content,
\* an empty subreddit, a non-empty post_type other than 'text' and 'link',
\* or post_type 'link' without a url raises ValueError after exactly one
\* attempt and makes no submit call.
C23_BadInputRaisesOnce ==
    (IsPublisher /\ p_pc \in {"trying", "done"} /\ C23_BadInput) =>
        /\ p_reddit = <<>>
        /\ p_tries <= 1
        /\ p_pc = "trying" => p_tries = 0
        /\ p_pc = "done" =>
              (p_tries = 1 /\ p_outcome = [returned |-> FALSE, exc |-> "ValueError"])

C23_Witness ==
    /\ p_tool = "RedditPublisherTool.forward"
    /\ p_pc = "done"
    /\ p_args.title = 301
    /\ p_args.content = 1
    /\ p_args.post_type = "text"
    /\ p_tries = 1
    /\ p_outcome.exc = "ValueError"
    /\ p_reddit = <<>>

\* C24: a publish tool submits a link post only when post_type is 'link'
\* and url is non-empty; with post_type None or 'text' every submit is a text
\* post with selftext = content; with any other post_type it raises
\* ValueError and submits nothing.
C24_LinkOnlyForLink ==
    (IsPublisher /\ p_pc \in {"trying", "done"}) =>
        /\ \A i \in 1..Len(p_reddit) :
              IsLink(p_reddit[i]) =>
                  (p_args.post_type = "link" /\ p_args.url \notin {"None", ""})
        /\ p_args.post_type \in {"None", "text"} =>
              \A i \in 1..Len(p_reddit) :
                  IsText(p_reddit[i]) /\ p_reddit[i].call[3] = p_args.content
        /\ p_args.post_type \notin {"None", "text", "link"} =>
              /\ p_reddit = <<>>
              /\ p_pc = "done" => p_outcome = [returned |-> FALSE, exc |-> "ValueError"]

\* C27: every attempt of a call passes through the limiter and takes one
\* slot: after k attempts calls_made is k above its value at the start of
\* the call, or, when the limiter reset its counter on the way, the number of
\* attempts from that reset on.
C27_RetriesTakeSlots ==
    (p_pc \in {"trying", "done"} /\ r_calls >= 1) =>
        /\ p_tries >= 1 => r_invoked
        /\ ~p_reset => calls_made = p_made0 + p_tries
        /\ p_reset => calls_made = p_after
        /\ p_slept <= p_tries

\* A call that began with two slots free, whose third attempt found the
\* limit reached by its own first two and slept.
C27_Witness ==
    /\ IsPublisher
    /\ p_pc = "done"
    /\ p_tries = 3
    /\ p_made0 = r_calls - 2
    /\ p_slept = 1
    /\ r_last.called
    /\ r_last.slept
    /\ r_last.found = r_calls
    /\ calls_made = 1

=============================================================================
